---- MODULE Spec2Model ----
(***************************************************************************)
(* Model of the IDF binding of archetypal-core (rust/src/lib.rs): a        *)
(* #[pyclass] holding a serde_json::Value that IDF::new loads from a file  *)
(* and IDF::get_data renders back to JSON text.                            *)
(*                                                                         *)
(* A file's content is a sequence of bytes, each byte a one-character      *)
(* string (control bytes are written by name: "LF", "TAB").  The JSON      *)
(* conversions are modelled by what serde_json does on those bytes: the    *)
(* recursive-descent reader with its depth budget, the BTreeMap-backed     *)
(* objects, the three-variant Number, and the compact writer.              *)
(*                                                                         *)
(* A float is kept as the decimal it was written as.  That names the       *)
(* double exactly for the literals of the model's files: at most 15        *)
(* significant digits and a decimal exponent within 22 of zero, where      *)
(* f64_from_parts is one exact operation and ryu prints the same digits    *)
(* back.  Integers stay far below the u64 and i64 limits.  Literals beyond *)
(* that range, \u escapes and bytes that are not ASCII are outside the     *)
(* files of the model.                                                     *)
(***************************************************************************)
EXTENDS Integers, Sequences, FiniteSets, TLC

(***************************************************************************)
(* Bounds of the model.                                                    *)
(***************************************************************************)
\* Every byte string over ExhaustiveBytes of at most this length is a file content.
MaxLen == 3
\* IDF objects the host builds in one run.
MaxObjs == 1
\* get_data calls counted per object.
MaxCalls == 2

(***************************************************************************)
(* serde_json::Value                                                       *)
(***************************************************************************)
NullV == [t |-> "null"]
BoolV(b) == [t |-> "bool", b |-> b]
\* Number::PosInt(u64)
PosInt(n) == [t |-> "num", k |-> "PosInt", n |-> n]
\* Number::NegInt(i64), n the magnitude (> 0)
NegInt(n) == [t |-> "num", k |-> "NegInt", n |-> n]
\* Number::Float(f64), the double nearest to (-1)^neg * mant * 10^exp, with
\* mant free of trailing zeros (mant = 0 has exp = 0).
FloatV(neg, mant, exp) == [t |-> "num", k |-> "Float", neg |-> neg, mant |-> mant, exp |-> exp]
StrV(cs) == [t |-> "str", s |-> cs]
ArrV(a) == [t |-> "arr", a |-> a]
\* Map<String, Value>: a BTreeMap, kept as the sequence of its <<key, value>>
\* entries in key order.
ObjV(m) == [t |-> "obj", m |-> m]

(***************************************************************************)
(* Bytes                                                                   *)
(***************************************************************************)
\* The bytes of the model in ASCII order (String's Ord compares bytes).
Ascii ==
  << "BS", "TAB", "LF", "FF", "CR", " ", "\"", "+", ",", "-", ".", "/",
     "0", "1", "2", "3", "4", "5", "6", "7", "8", "9", ":", "E", "[", "\\", "]",
     "a", "b", "e", "f", "l", "n", "r", "s", "t", "u", "x", "{", "}" >>
Bytes == {Ascii[k] : k \in 1..Len(Ascii)}
Code(c) == CHOOSE k \in 1..Len(Ascii) : Ascii[k] = c
\* serde_json's parse_whitespace skips b' ' | b'\n' | b'\t' | b'\r'.
Whitespace == {" ", "LF", "TAB", "CR"}
ControlBytes == {"BS", "TAB", "LF", "FF", "CR"}
DigitBytes == {"0", "1", "2", "3", "4", "5", "6", "7", "8", "9"}
DigitVal(c) == Code(c) - Code("0")
DigitByte(d) == Ascii[Code("0") + d]

Peek(s, i) == IF i <= Len(s) THEN s[i] ELSE "EOF"

RECURSIVE SkipWs(_, _)
SkipWs(s, i) == IF i <= Len(s) /\ s[i] \in Whitespace THEN SkipWs(s, i + 1) ELSE i

\* a < b in the byte-wise order of Rust's String
RECURSIVE StrLess(_, _)
StrLess(a, b) ==
  IF b = <<>> THEN FALSE
  ELSE IF a = <<>> THEN TRUE
  ELSE IF a[1] # b[1] THEN Code(a[1]) < Code(b[1])
  ELSE StrLess(Tail(a), Tail(b))

\* BTreeMap::insert: the entry replaces one with an equal key.
MapInsert(m, k, v) ==
  SelectSeq(m, LAMBDA e : StrLess(e[1], k)) \o << <<k, v>> >>
    \o SelectSeq(m, LAMBDA e : StrLess(k, e[1]))

(***************************************************************************)
(* serde_json::from_reader: the reader                                     *)
(* A result is [ok, v, i]: whether a value was read, the value, and the    *)
(* index of the first byte after it.                                       *)
(***************************************************************************)
\* Deserializer::remaining_depth starts at 128; each array or object entered
\* takes one, and reaching 0 is ErrorCode::RecursionLimitExceeded.
RecursionLimit == 128

Fail(i) == [ok |-> FALSE, v |-> NullV, i |-> i]
Done(v, i) == [ok |-> TRUE, v |-> v, i |-> i]

\* parse_ident: the bytes of the literal must follow.
ParseIdent(s, i, lit, v) ==
  IF i + Len(lit) - 1 <= Len(s) /\ SubSeq(s, i, i + Len(lit) - 1) = lit
  THEN Done(v, i + Len(lit))
  ELSE Fail(i)

\* the run of digits at i, folded into the number n: [n, i, cnt]
RECURSIVE ScanDigits(_, _, _, _)
ScanDigits(s, i, n, cnt) ==
  IF Peek(s, i) \in DigitBytes
  THEN ScanDigits(s, i + 1, n * 10 + DigitVal(s[i]), cnt + 1)
  ELSE [n |-> n, i |-> i, cnt |-> cnt]

\* f64_from_parts: significand * 10^exponent as a double.  Trailing zeros of
\* the significand move into the exponent, which names the same double.
RECURSIVE FloatFromParts(_, _, _)
FloatFromParts(positive, significand, exponent) ==
  IF significand = 0 THEN FloatV(~positive, 0, 0)
  ELSE IF significand % 10 = 0 THEN FloatFromParts(positive, significand \div 10, exponent + 1)
  ELSE FloatV(~positive, significand, exponent)

\* parse_exponent: e | E, an optional sign, at least one digit.
ParseExponent(s, i, positive, significand, startingExp) ==
  LET j == IF Peek(s, i + 1) \in {"+", "-"} THEN i + 2 ELSE i + 1
      positiveExp == Peek(s, i + 1) # "-"
      d == ScanDigits(s, j, 0, 0)
  IN  IF d.cnt = 0 THEN Fail(j)
      ELSE Done(FloatFromParts(positive, significand,
                               IF positiveExp THEN startingExp + d.n ELSE startingExp - d.n), d.i)

\* parse_decimal: the '.' at i, at least one digit, an optional exponent.
ParseDecimal(s, i, positive, significand) ==
  LET d == ScanDigits(s, i + 1, significand, 0)
  IN  IF d.cnt = 0 THEN Fail(d.i)
      ELSE IF Peek(s, d.i) \in {"e", "E"} THEN ParseExponent(s, d.i, positive, d.n, -d.cnt)
      ELSE Done(FloatFromParts(positive, d.n, -d.cnt), d.i)

\* parse_number: what follows the integer part decides the variant.  A negative
\* integer whose i64 negation is not negative (-0) is stored as a float.
ParseNumber(s, i, positive, significand) ==
  CASE Peek(s, i) = "." -> ParseDecimal(s, i, positive, significand)
    [] Peek(s, i) \in {"e", "E"} -> ParseExponent(s, i, positive, significand, 0)
    [] OTHER -> IF positive THEN Done(PosInt(significand), i)
                ELSE IF significand = 0 THEN Done(FloatV(TRUE, 0, 0), i)
                ELSE Done(NegInt(significand), i)

\* parse_integer: a leading 0 may not be followed by a digit.
ParseInteger(s, i, positive) ==
  CASE Peek(s, i) = "0" ->
         IF Peek(s, i + 1) \in DigitBytes THEN Fail(i + 1)
         ELSE ParseNumber(s, i + 1, positive, 0)
    [] Peek(s, i) \in DigitBytes \ {"0"} ->
         LET d == ScanDigits(s, i, 0, 0) IN ParseNumber(s, d.i, positive, d.n)
    [] OTHER -> Fail(i)

\* parse_escape: the byte after a backslash.
Unescape(c) ==
  CASE c \in {"\"", "\\", "/"} -> c
    [] c = "b" -> "BS"
    [] c = "f" -> "FF"
    [] c = "n" -> "LF"
    [] c = "r" -> "CR"
    [] c = "t" -> "TAB"
    [] OTHER -> "invalid"

\* parse_str: the bytes after the opening quote, up to the closing one.  A raw
\* control byte is ControlCharacterWhileParsingString.
RECURSIVE ParseStr(_, _, _)
ParseStr(s, i, acc) ==
  LET c == Peek(s, i) IN
  CASE c = "EOF" -> Fail(i)
    [] c = "\"" -> Done(StrV(acc), i + 1)
    [] c = "\\" ->
         LET u == Unescape(Peek(s, i + 1)) IN
         IF u = "invalid" THEN Fail(i + 1) ELSE ParseStr(s, i + 2, Append(acc, u))
    [] c \in ControlBytes -> Fail(i)
    [] OTHER -> ParseStr(s, i + 1, Append(acc, c))

\* how many of byte c stand in a row at index i
Run(s, i, c) ==
  CHOOSE n \in 0..(Len(s) + 1 - i) :
    /\ \A k \in i..(i + n - 1) : s[k] = c
    /\ Peek(s, i + n) # c

Min(a, b) == IF a <= b THEN a ELSE b

\* v inside m arrays of one element each
RECURSIVE Wrap(_, _)
Wrap(v, m) == IF m = 0 THEN v ELSE ArrV(<<Wrap(v, m - 1)>>)

RECURSIVE ParseValue(_, _, _)
RECURSIVE ParseArrays(_, _, _, _)
RECURSIVE ParseOuter(_, _, _, _, _)
RECURSIVE ParseElements(_, _, _, _, _)
RECURSIVE ParseMembers(_, _, _, _, _)

\* Deserializer::deserialize_any: skip whitespace, then the first byte decides.
\* rem is remaining_depth.
ParseValue(s, i, rem) ==
  LET j == SkipWs(s, i)
      c == Peek(s, j)
  IN  CASE c = "n" -> ParseIdent(s, j, <<"n", "u", "l", "l">>, NullV)
        [] c = "t" -> ParseIdent(s, j, <<"t", "r", "u", "e">>, BoolV(TRUE))
        [] c = "f" -> ParseIdent(s, j, <<"f", "a", "l", "s", "e">>, BoolV(FALSE))
        [] c = "-" -> ParseInteger(s, j + 1, FALSE)
        [] c \in DigitBytes -> ParseInteger(s, j, TRUE)
        [] c = "\"" -> ParseStr(s, j + 1, <<>>)
        [] c = "[" -> ParseArrays(s, j, rem, Run(s, j, "["))
        [] c = "{" -> IF rem - 1 = 0 THEN Fail(j)
                      ELSE ParseMembers(s, j + 1, rem - 1, <<>>, TRUE)
        [] OTHER -> Fail(j)

\* The n >= 1 '[' that stand in a row at j, each entering an array: the k-th
\* leaves remaining_depth at rem - k, so the row is entered whole when n < rem
\* and ends in RecursionLimitExceeded otherwise.  The innermost array is read
\* by ParseElements; each ']' that follows it directly closes an enclosing
\* array of that one element; the arrays still open go on with ParseOuter.
ParseArrays(s, j, rem, n) ==
  LET inner == ParseElements(s, j + n, rem - n, <<>>, TRUE)
      m == Min(n - 1, Run(s, inner.i, "]"))
  IN  IF n >= rem THEN Fail(j + rem - 1)
      ELSE IF ~inner.ok THEN Fail(inner.i)
      ELSE ParseOuter(s, inner.i + m, rem - (n - 1 - m), Wrap(inner.v, m), n - 1 - m)

\* levels arrays are open around the value v just read, the innermost of them
\* with depth budget rem: each reads its further elements and its ']'.
ParseOuter(s, i, rem, v, levels) ==
  LET r == ParseElements(s, i, rem, <<v>>, FALSE)
  IN  IF levels = 0 THEN Done(v, i)
      ELSE IF ~r.ok THEN Fail(r.i)
      ELSE ParseOuter(s, r.i, rem + 1, r.v, levels - 1)

\* SeqAccess::next_element_seed and end_seq: elements separated by commas, no
\* trailing comma, closed by ']'.
ParseElements(s, i, rem, acc, first) ==
  LET j == SkipWs(s, i)
      c == Peek(s, j)
      k == IF c = "," /\ ~first THEN SkipWs(s, j + 1) ELSE j
      r == ParseValue(s, k, rem)
  IN  CASE c = "]" -> Done(ArrV(acc), j + 1)
        [] c = "EOF" -> Fail(j)
        [] c # "," /\ ~first -> Fail(j)
        [] OTHER ->
             IF Peek(s, k) = "]" \/ ~r.ok THEN Fail(k)
             ELSE ParseElements(s, r.i, rem, Append(acc, r.v), FALSE)

\* MapAccess::next_key_seed, next_value_seed and end_map: "key" : value
\* members separated by commas, no trailing comma, closed by '}'.
ParseMembers(s, i, rem, acc, first) ==
  LET j == SkipWs(s, i)
      c == Peek(s, j)
      k == IF c = "," /\ ~first THEN SkipWs(s, j + 1) ELSE j
      key == ParseStr(s, k + 1, <<>>)
      colon == SkipWs(s, key.i)
      r == ParseValue(s, colon + 1, rem)
  IN  CASE c = "}" -> Done(ObjV(acc), j + 1)
        [] c = "EOF" -> Fail(j)
        [] c # "," /\ ~first -> Fail(j)
        [] OTHER ->
             IF Peek(s, k) # "\"" \/ ~key.ok THEN Fail(k)
             ELSE IF Peek(s, colon) # ":" \/ ~r.ok THEN Fail(colon)
             ELSE ParseMembers(s, r.i, rem, MapInsert(acc, key.v.s, r.v), FALSE)

ParseDocumentNoEnd(s, limit) == ParseValue(s, 1, limit)
\* One JSON document: a value, then Deserializer::end (only whitespace may
\* follow), with a depth budget of limit.
ParseDocument(s, limit) ==
  LET r == ParseValue(s, 1, limit)
  IN  IF r.ok /\ SkipWs(s, r.i) = Len(s) + 1 THEN r ELSE Fail(r.i)

\* serde_json::from_reader(reader): the reader is the opened file.  A read
\* that fails ends it with an Error of category Io, bytes that are no JSON
\* document (or nest too deep) with one of category Syntax, Eof or Data; both
\* are a serde_json::Error.
from_reader(reader) ==
  IF reader.kind = "unreadable" THEN [ok |-> FALSE, v |-> NullV, category |-> "Io"]
  ELSE LET r == ParseDocument(reader.content, RecursionLimit)
       IN  [ok |-> r.ok, v |-> r.v, category |-> IF r.ok THEN "none" ELSE "Syntax"]

\* serde_json::from_str / from_slice on bytes in memory
from_slice(s) == ParseDocument(s, RecursionLimit)

(***************************************************************************)
(* serde_json::to_string: the compact writer                               *)
(***************************************************************************)
\* itoa: the decimal digits of a natural number
RECURSIVE NatDigits(_)
NatDigits(n) == IF n < 10 THEN <<DigitByte(n)>> ELSE Append(NatDigits(n \div 10), DigitByte(n % 10))

RECURSIVE Zeros(_)
Zeros(n) == IF n <= 0 THEN <<>> ELSE <<"0">> \o Zeros(n - 1)

\* ryu's format of a finite double (pretty::format64): the shortest digits ds
\* with decimal exponent k, written plainly when the point falls within
\* (-5, 16] digits of the first one and in exponent form otherwise.
FormatF64(neg, mant, exp) ==
  LET ds == NatDigits(mant)
      len == Len(ds)
      kk == len + exp
      sign == IF neg THEN <<"-">> ELSE <<>>
      e10 == IF kk - 1 < 0 THEN <<"-">> \o NatDigits(1 - kk) ELSE NatDigits(kk - 1)
  IN  sign \o
      (CASE mant = 0 -> <<"0", ".", "0">>
         [] mant # 0 /\ 0 <= exp /\ kk <= 16 -> ds \o Zeros(exp) \o <<".", "0">>
         [] mant # 0 /\ exp < 0 /\ 0 < kk /\ kk <= 16 ->
              SubSeq(ds, 1, kk) \o <<".">> \o SubSeq(ds, kk + 1, len)
         [] mant # 0 /\ exp < 0 /\ -5 < kk /\ kk <= 0 -> <<"0", ".">> \o Zeros(-kk) \o ds
         [] OTHER ->
              IF len = 1 THEN ds \o <<"e">> \o e10
              ELSE <<ds[1], ".">> \o SubSeq(ds, 2, len) \o <<"e">> \o e10)

\* Serializer::serialize_u64 / serialize_i64 / serialize_f64
WriteNumber(v) ==
  CASE v.k = "PosInt" -> NatDigits(v.n)
    [] v.k = "NegInt" -> <<"-">> \o NatDigits(v.n)
    [] v.k = "Float" -> FormatF64(v.neg, v.mant, v.exp)

\* format_escaped_str_contents: the ESCAPE table
EscapeByte(c) ==
  CASE c = "\"" -> <<"\\", "\"">>
    [] c = "\\" -> <<"\\", "\\">>
    [] c = "BS" -> <<"\\", "b">>
    [] c = "FF" -> <<"\\", "f">>
    [] c = "LF" -> <<"\\", "n">>
    [] c = "CR" -> <<"\\", "r">>
    [] c = "TAB" -> <<"\\", "t">>
    [] OTHER -> <<c>>

RECURSIVE EscapeStr(_)
EscapeStr(cs) == IF cs = <<>> THEN <<>> ELSE EscapeByte(cs[1]) \o EscapeStr(Tail(cs))

\* format_escaped_str
WriteStr(cs) == <<"\"">> \o EscapeStr(cs) \o <<"\"">>

RECURSIVE WriteValue(_)
RECURSIVE WriteElements(_, _)
RECURSIVE WriteMembers(_, _)

\* impl Serialize for Value, through CompactFormatter: no whitespace, object
\* entries in the map's (key) order.
WriteValue(v) ==
  CASE v.t = "null" -> <<"n", "u", "l", "l">>
    [] v.t = "bool" -> IF v.b THEN <<"t", "r", "u", "e">> ELSE <<"f", "a", "l", "s", "e">>
    [] v.t = "num" -> WriteNumber(v)
    [] v.t = "str" -> WriteStr(v.s)
    [] v.t = "arr" -> <<"[">> \o WriteElements(v.a, 1) \o <<"]">>
    [] v.t = "obj" -> <<"{">> \o WriteMembers(v.m, 1) \o <<"}">>

WriteElements(a, i) ==
  IF i > Len(a) THEN <<>>
  ELSE (IF i > 1 THEN <<",">> ELSE <<>>) \o WriteValue(a[i]) \o WriteElements(a, i + 1)

WriteMembers(m, i) ==
  IF i > Len(m) THEN <<>>
  ELSE (IF i > 1 THEN <<",">> ELSE <<>>) \o WriteStr(m[i][1]) \o <<":">>
         \o WriteValue(m[i][2]) \o WriteMembers(m, i + 1)

to_string_containers_only(v) ==
  IF v.t \in {"arr", "obj"} THEN [ok |-> TRUE, text |-> WriteValue(v)]
  ELSE [ok |-> FALSE, text |-> <<>>]
\* serde_json::to_string(&value): a Value holds only string keys and finite
\* numbers and the writer is a Vec<u8>, so no error arises.
to_string(v) == [ok |-> TRUE, text |-> WriteValue(v)]

(***************************************************************************)
(* impl PartialEq for Value: structural, with f64's == on floats, for      *)
(* which 0.0 and -0.0 are equal.                                           *)
(***************************************************************************)
RECURSIVE ValueEq(_, _)
ValueEq(a, b) ==
  IF a.t # b.t THEN FALSE
  ELSE CASE a.t = "num" ->
              /\ a.k = b.k
              /\ IF a.k = "Float"
                 THEN /\ a.mant = b.mant
                      /\ a.exp = b.exp
                      /\ (a.mant # 0 => a.neg = b.neg)
                 ELSE a.n = b.n
         [] a.t = "arr" ->
              /\ Len(a.a) = Len(b.a)
              /\ \A i \in 1..Len(a.a) : ValueEq(a.a[i], b.a[i])
         [] a.t = "obj" ->
              /\ Len(a.m) = Len(b.m)
              /\ \A i \in 1..Len(a.m) : a.m[i][1] = b.m[i][1] /\ ValueEq(a.m[i][2], b.m[i][2])
         [] OTHER -> a = b

(***************************************************************************)
(* Well-formed JSON text (the grammar of RFC 8259), as the claims use the  *)
(* word: a recogniser that builds no value and knows no depth limit.  Each *)
(* operator gives the index after the phrase that starts at i, or 0 when   *)
(* no such phrase starts there.                                            *)
(***************************************************************************)
RECURSIVE JsonDigits(_, _)
JsonDigits(s, i) == IF Peek(s, i) \in DigitBytes THEN JsonDigits(s, i + 1) ELSE i

\* number = [ minus ] int [ frac ] [ exp ]
JsonNumber(s, i) ==
  LET a == IF Peek(s, i) = "-" THEN i + 1 ELSE i
      b == IF Peek(s, a) = "0" THEN a + 1 ELSE JsonDigits(s, a)
      c == IF Peek(s, b) = "." THEN JsonDigits(s, b + 1) ELSE b
      d == IF Peek(s, c) \in {"e", "E"}
           THEN (IF Peek(s, c + 1) \in {"+", "-"} THEN c + 2 ELSE c + 1)
           ELSE c
      e == IF d = c THEN c ELSE JsonDigits(s, d)
  IN  IF b = a \/ (Peek(s, b) = "." /\ c = b + 1) \/ (d # c /\ e = d) THEN 0 ELSE e

\* string = quotation-mark *char quotation-mark
RECURSIVE JsonString(_, _)
JsonString(s, i) ==
  CASE Peek(s, i) = "\"" -> i + 1
    [] Peek(s, i) = "\\" ->
         IF Peek(s, i + 1) \in {"\"", "\\", "/", "b", "f", "n", "r", "t"}
         THEN JsonString(s, i + 2) ELSE 0
    [] Peek(s, i) \in ControlBytes \cup {"EOF"} -> 0
    [] OTHER -> JsonString(s, i + 1)

Literal(s, i, lit) ==
  IF i + Len(lit) - 1 <= Len(s) /\ SubSeq(s, i, i + Len(lit) - 1) = lit THEN i + Len(lit) ELSE 0

RECURSIVE JsonValue(_, _)
RECURSIVE JsonArrays(_, _, _)
RECURSIVE JsonOuter(_, _, _)
RECURSIVE JsonMoreElements(_, _)
RECURSIVE JsonMoreMembers(_, _)

\* member = string name-separator value
JsonMember(s, i) ==
  LET k == IF Peek(s, i) = "\"" THEN JsonString(s, i + 1) ELSE 0
      c == IF k = 0 THEN 0 ELSE SkipWs(s, k)
  IN  IF k = 0 \/ Peek(s, c) # ":" THEN 0 ELSE JsonValue(s, SkipWs(s, c + 1))

\* value = false / null / true / object / array / number / string, then ws
JsonValue(s, i) ==
  LET c == Peek(s, i)
      e == CASE c = "n" -> Literal(s, i, <<"n", "u", "l", "l">>)
             [] c = "t" -> Literal(s, i, <<"t", "r", "u", "e">>)
             [] c = "f" -> Literal(s, i, <<"f", "a", "l", "s", "e">>)
             [] c = "\"" -> JsonString(s, i + 1)
             [] c = "-" \/ c \in DigitBytes -> JsonNumber(s, i)
             [] c = "[" -> JsonArrays(s, i, Run(s, i, "["))
             [] c = "{" ->
                  LET j == SkipWs(s, i + 1) IN
                  IF Peek(s, j) = "}" THEN j + 1
                  ELSE LET m == JsonMember(s, j) IN IF m = 0 THEN 0 ELSE JsonMoreMembers(s, m)
             [] OTHER -> 0
  IN  IF e = 0 THEN 0 ELSE SkipWs(s, e)

\* after a member: *( value-separator member ) end-object
JsonMoreMembers(s, i) ==
  CASE Peek(s, i) = "}" -> i + 1
    [] Peek(s, i) = "," ->
         LET m == JsonMember(s, SkipWs(s, i + 1)) IN IF m = 0 THEN 0 ELSE JsonMoreMembers(s, m)
    [] OTHER -> 0

\* after an element: *( value-separator value ) end-array
JsonMoreElements(s, i) ==
  CASE Peek(s, i) = "]" -> i + 1
    [] Peek(s, i) = "," ->
         LET v == JsonValue(s, SkipWs(s, i + 1)) IN IF v = 0 THEN 0 ELSE JsonMoreElements(s, v)
    [] OTHER -> 0

\* n begin-array in a row at i: the innermost array, the end-array that follow
\* it directly, and then the arrays still open, each with its further elements
JsonArrays(s, i, n) ==
  LET j == SkipWs(s, i + n)
      first == IF Peek(s, j) = "]" THEN j ELSE JsonValue(s, j)
      inner == IF Peek(s, j) = "]" THEN j + 1
               ELSE IF first = 0 THEN 0 ELSE JsonMoreElements(s, first)
      m == IF inner = 0 THEN 0 ELSE Min(n - 1, Run(s, inner, "]"))
  IN  IF inner = 0 THEN 0 ELSE JsonOuter(s, inner + m, n - 1 - m)

JsonOuter(s, i, levels) ==
  LET e == JsonMoreElements(s, SkipWs(s, i))
  IN  IF levels = 0 THEN i
      ELSE IF e = 0 THEN 0
      ELSE JsonOuter(s, e, levels - 1)

\* JSON-text = ws value ws
WellFormedJson(s) == JsonValue(s, SkipWs(s, 1)) = Len(s) + 1

(***************************************************************************)
(* The file system at the path handed to IDF::new, and the files of the    *)
(* model.                                                                  *)
(***************************************************************************)
\* missing: no such file.  denied: no permission to read.  unreadable: the
\* path opens but reading it fails (a directory, a failing device).
FileKinds == {"missing", "denied", "unreadable", "regular"}
File(kind, content) == [kind |-> kind, content |-> content]

ExhaustiveBytes == {"[", "]", "{", "}", ",", ":", " ", "\"", "a", "1", "0", "-", "."}
\* every byte string over ExhaustiveBytes of length at most n
Texts(n) == UNION {[1..k -> ExhaustiveBytes] : k \in 0..n}

RECURSIVE Repeat(_, _)
Repeat(c, n) == IF n = 0 THEN <<>> ELSE <<c>> \o Repeat(c, n - 1)

\* {"a": 1, "b": [true, null, "x"]}
SampleObject ==
  << "{", "\"", "a", "\"", ":", " ", "1", ",", " ", "\"", "b", "\"", ":", " ", "[",
     "t", "r", "u", "e", ",", " ", "n", "u", "l", "l", ",", " ", "\"", "x", "\"", "]", "}" >>
\* {"b":1,"a":[],"b":-0}
SampleDuplicateKeys ==
  << "{", "\"", "b", "\"", ":", "1", ",", "\"", "a", "\"", ":", "[", "]", ",",
     "\"", "b", "\"", ":", "-", "0", "}" >>
\* [1.10, 5E-7,<LF>false]<LF>
SampleNumbers ==
  << "[", "1", ".", "1", "0", ",", " ", "5", "E", "-", "7", ",", "LF",
     "f", "a", "l", "s", "e", "]", "LF" >>
\* "\/\n\""
SampleEscapes == << "\"", "\\", "/", "\\", "n", "\\", "\"", "\"" >>
SampleNull == << "n", "u", "l", "l" >>
SampleTrue == << "t", "r", "u", "e" >>
\* [1,]
SampleTrailingComma == << "[", "1", ",", "]" >>
\* tru
SampleBadLiteral == << "t", "r", "u" >>
\* RecursionLimit arrays, one inside the other: [[[ ... ]]]
SampleDeep == Repeat("[", RecursionLimit) \o Repeat("]", RecursionLimit)

Samples ==
  { SampleObject, SampleDuplicateKeys, SampleNumbers, SampleEscapes, SampleNull,
    SampleTrue, SampleTrailingComma, SampleBadLiteral, SampleDeep, <<>>, <<"{">>, <<"[", "]">> }

\* what another process writes into the file while the program runs
Rewrites == { <<>>, <<"[", "]">> }

Threads == {"t1", "t2"}

(***************************************************************************)
(* State                                                                   *)
(***************************************************************************)
VARIABLES
  file,     \* the file at the path: [kind, content]
  pc,       \* per thread: "idle", "opened" (inside IDF::new, after File::open),
            \* "borrowed" (inside IDF::get_data, holding &self)
  fd,       \* per thread: whether it holds an open descriptor of the file
  objs,     \* the IDF objects built so far: [data, read, saw]; read records
            \* the bytes data was parsed from, saw the file's kind when opened
  borrow,   \* per object: shared borrows of its PyCell now held
  target,   \* per thread: the object its get_data call borrows (0: none)
  snap,     \* per thread: the value that object held when the call began
  ret,      \* per thread: what its last call returned
  opens,    \* per thread: File::open calls made by its last IDF::new
  ncalls,   \* per object: get_data calls begun on it
  first     \* per object: the text its first get_data returned (<<"none">> before)

vars == <<file, pc, fd, objs, borrow, target, snap, ret, opens, ncalls, first>>

\* A call's return, with what the call observed: saw is the file's kind when
\* File::open ran, read the bytes from_reader was given, nth the call's number
\* on its object, before the object's value and alone the text of that value
\* when the call began, overlapped whether another call held the object when
\* this one ended.
NoRet == [op |-> "none", kind |-> "none", obj |-> 0, text |-> <<>>,
          saw |-> "none", read |-> <<>>, nth |-> 0, before |-> NullV,
          alone |-> <<>>, overlapped |-> FALSE]

InitProgram ==
  /\ pc = [t \in Threads |-> "idle"]
  /\ fd = [t \in Threads |-> FALSE]
  /\ objs = <<>>
  /\ borrow = <<>>
  /\ target = [t \in Threads |-> 0]
  /\ snap = [t \in Threads |-> NullV]
  /\ ret = [t \in Threads |-> NoRet]
  /\ opens = [t \in Threads |-> 0]
  /\ ncalls = <<>>
  /\ first = <<>>

Init ==
  /\ file \in {File(k, <<>>) : k \in FileKinds \ {"regular"}}
                \cup {File("regular", c) : c \in Samples}
  /\ InitProgram

(***************************************************************************)
(* IDF::new(file_path)                                                     *)
(***************************************************************************)
\* File::open(file_path): Err for a path that cannot be opened
FileOpen(f) == f.kind \notin {"missing", "denied"}

OpenErrorAsValueError == "PyValueError"
\* .map_err(|e| PyErr::new::<PyIOError, _>(..)) on File::open's error
OpenError == "PyIOError"

\* .map_err(|e| PyErr::new::<PyValueError, _>(..)) on from_reader's error,
\* whatever its category
ReaderError(category) == "PyValueError"

LeakReader(fds, t) == fds
\* from_reader takes the BufReader<File> by value and drops it on return:
\* the descriptor is closed before IDF::new goes on.
DropReader(fds, t) == [fds EXCEPT ![t] = FALSE]

\* Ok(IDF { data }): a new object, handed to the host
NewObject(os, v, bytes, saw) == Append(os, [data |-> v, read |-> bytes, saw |-> saw])

\* line 17: the one File::open; its error returns from new at once
NewOpen(t) ==
  /\ pc[t] = "idle"
  /\ Len(objs) + Cardinality({u \in Threads : pc[u] = "opened"}) < MaxObjs
  /\ opens' = [opens EXCEPT ![t] = 1]
  /\ IF FileOpen(file)
     THEN /\ pc' = [pc EXCEPT ![t] = "opened"]
          /\ fd' = [fd EXCEPT ![t] = TRUE]
          /\ ret' = [ret EXCEPT ![t] = [NoRet EXCEPT !.saw = file.kind]]
     ELSE /\ pc' = pc
          /\ fd' = fd
          /\ ret' = [ret EXCEPT ![t] = [NoRet EXCEPT !.op = "new", !.kind = OpenError,
                                                     !.saw = file.kind]]
  /\ UNCHANGED <<file, objs, borrow, target, snap, ncalls, first>>

\* lines 18-21: read and parse through the reader, then build the object
NewParse(t) ==
  /\ pc[t] = "opened"
  /\ LET r == from_reader(file)
         bytes == IF file.kind = "unreadable" THEN <<>> ELSE file.content
     IN  IF r.ok
         THEN /\ objs' = NewObject(objs, r.v, bytes, ret[t].saw)
              /\ borrow' = Append(borrow, 0)
              /\ ncalls' = Append(ncalls, 0)
              /\ first' = Append(first, <<"none">>)
              /\ ret' = [ret EXCEPT ![t] = [@ EXCEPT !.op = "new", !.kind = "Ok",
                                                     !.obj = Len(objs) + 1, !.read = bytes]]
         ELSE /\ UNCHANGED <<objs, borrow, ncalls, first>>
              /\ ret' = [ret EXCEPT ![t] = [@ EXCEPT !.op = "new",
                                                     !.kind = ReaderError(r.category),
                                                     !.read = bytes]]
  /\ fd' = DropReader(fd, t)
  /\ pc' = [pc EXCEPT ![t] = "idle"]
  /\ UNCHANGED <<file, target, snap, opens>>

(***************************************************************************)
(* IDF::get_data(&self)                                                    *)
(***************************************************************************)
BorrowExclusive(count) == count = 0
\* &self: PyCell::try_borrow succeeds unless the cell is mutably borrowed, and
\* no method of IDF takes &mut self; count is the shared borrows now held.
BorrowShared(count) == TRUE

get_data_reload(self) ==
  LET r == to_string(from_reader(file).v)
  IN  IF r.ok THEN [kind |-> "Ok", text |-> r.text]
      ELSE [kind |-> "PyValueError", text |-> <<>>]
\* serde_json::to_string(&self.data).map_err(PyValueError)
get_data(self) ==
  LET r == to_string(self.data)
  IN  IF r.ok THEN [kind |-> "Ok", text |-> r.text]
      ELSE [kind |-> "PyValueError", text |-> <<>>]

TakeData(os, o) == [os EXCEPT ![o].data = NullV]
\* get_data takes &self and hands out no &mut: the object is as it was
SelfAfterGetData(os, o) == os

\* the host calls the method on object o: the cell hands out a shared borrow,
\* or the call ends in PyBorrowError (a RuntimeError)
GetDataBegin(t, o) ==
  /\ pc[t] = "idle"
  /\ o \in 1..Len(objs)
  /\ ncalls[o] < MaxCalls
  /\ ncalls' = [ncalls EXCEPT ![o] = @ + 1]
  /\ IF BorrowShared(borrow[o])
     THEN /\ pc' = [pc EXCEPT ![t] = "borrowed"]
          /\ target' = [target EXCEPT ![t] = o]
          /\ snap' = [snap EXCEPT ![t] = objs[o].data]
          /\ borrow' = [borrow EXCEPT ![o] = @ + 1]
          /\ ret' = [ret EXCEPT ![t] = [NoRet EXCEPT !.nth = ncalls[o] + 1]]
     ELSE /\ ret' = [ret EXCEPT ![t] = [NoRet EXCEPT !.op = "get_data", !.kind = "RuntimeError",
                                                     !.obj = o, !.nth = ncalls[o] + 1,
                                                     !.before = objs[o].data,
                                                     !.alone = WriteValue(objs[o].data),
                                                     !.overlapped = TRUE]]
          /\ UNCHANGED <<pc, target, snap, borrow>>
  /\ UNCHANGED <<file, fd, objs, opens, first>>

\* lines 25-26: the value is written out and the borrow ends
GetDataEnd(t) ==
  /\ pc[t] = "borrowed"
  /\ LET o == target[t]
         r == get_data(objs[o])
     IN  /\ ret' = [ret EXCEPT ![t] = [@ EXCEPT !.op = "get_data", !.kind = r.kind,
                                                !.obj = o, !.text = r.text,
                                                !.before = snap[t],
                                                !.alone = WriteValue(snap[t]),
                                                !.overlapped = borrow[o] > 1]]
         /\ first' = [first EXCEPT ![o] = IF @ = <<"none">> /\ r.kind = "Ok" THEN r.text ELSE @]
         /\ borrow' = [borrow EXCEPT ![o] = @ - 1]
         /\ objs' = SelfAfterGetData(objs, o)
  /\ pc' = [pc EXCEPT ![t] = "idle"]
  /\ target' = [target EXCEPT ![t] = 0]
  /\ snap' = [snap EXCEPT ![t] = NullV]
  /\ UNCHANGED <<file, fd, opens, ncalls>>

(***************************************************************************)
(* Other processes                                                         *)
(***************************************************************************)
\* the file is rewritten (or truncated) in place
FsWrite(c) ==
  /\ file.kind = "regular"
  /\ file.content # c
  /\ file' = File("regular", c)
  /\ UNCHANGED <<pc, fd, objs, borrow, target, snap, ret, opens, ncalls, first>>

\* the file is unlinked; a descriptor already open still reads its bytes
FsRemove ==
  /\ file.kind = "regular"
  /\ file' = File("missing", file.content)
  /\ UNCHANGED <<pc, fd, objs, borrow, target, snap, ret, opens, ncalls, first>>

Next ==
  \/ \E t \in Threads : NewOpen(t)
  \/ \E t \in Threads : NewParse(t)
  \/ \E t \in Threads, o \in 1..MaxObjs : GetDataBegin(t, o)
  \/ \E t \in Threads : GetDataEnd(t)
  \/ \E c \in Rewrites : FsWrite(c)
  \/ FsRemove

Spec == Init /\ [][Next]_vars

(***************************************************************************)
(* One thread loading each file of the exhaustive set and reading it back. *)
(***************************************************************************)
InitLoad ==
  /\ file \in {File(k, <<>>) : k \in FileKinds \ {"regular"}}
                \cup {File("regular", c) : c \in Texts(MaxLen) \cup Samples}
  /\ InitProgram

NextLoad ==
  \/ NewOpen("t1")
  \/ NewParse("t1")
  \/ \E o \in 1..MaxObjs : GetDataBegin("t1", o)
  \/ GetDataEnd("t1")

SpecLoad == InitLoad /\ [][NextLoad]_vars

(***************************************************************************)
(* Properties                                                              *)
(***************************************************************************)
CannotOpen == {"missing", "denied"}
Returned(t, op) == ret[t].op = op
\* the text parses back to a value equal to the one the bytes src parse to
ParsesBackTo(text, src) ==
  /\ from_slice(text).ok
  /\ from_slice(src).ok
  /\ ValueEq(from_slice(text).v, from_slice(src).v)

\* Every object was loaded from bytes the reader accepts, and every text
\* get_data returned parses back to the value those bytes parse to.
RoundTripOfLoaded ==
  /\ \A o \in 1..Len(objs) : from_slice(objs[o].read).ok
  /\ \A t \in Threads :
       Returned(t, "get_data") =>
         ret[t].kind = "Ok" /\ ParsesBackTo(ret[t].text, objs[ret[t].obj].read)

\* C1: round-trip law.  IDF::new succeeds on every file that holds
\* well-formed JSON, and every later get_data returns a text that parses to
\* a value equal to the parse of the file's content.
C1_RoundTripLaw ==
  \A t \in Threads :
    /\ (Returned(t, "new") /\ ret[t].saw = "regular" /\ WellFormedJson(ret[t].read))
         => ret[t].kind = "Ok"
    /\ Returned(t, "get_data")
         => ret[t].kind = "Ok" /\ ParsesBackTo(ret[t].text, objs[ret[t].obj].read)

\* C2: when the path cannot be opened (missing, no permission), IDF::new
\* has returned PyIOError after its one File::open, holding no descriptor,
\* and no object came of it.
C2_OpenFailureIsIOError ==
  /\ \A t \in Threads :
       ret[t].saw \in CannotOpen =>
         /\ Returned(t, "new")
         /\ ret[t].kind = "PyIOError"
         /\ ret[t].obj = 0
         /\ opens[t] = 1
         /\ pc[t] # "opened"
         /\ ~fd[t]
  /\ \A t \in Threads : pc[t] = "opened" => opens[t] = 1
  /\ \A o \in 1..Len(objs) : objs[o].saw \notin CannotOpen

C2_Witness ==
  \E t \in Threads : Returned(t, "new") /\ ret[t].saw = "denied" /\ ret[t].kind = "PyIOError"

\* C3: a file that opens and reads but holds bytes that are not well-formed
\* JSON (the empty file among them) makes IDF::new return PyValueError and
\* no object; no object is ever loaded from such bytes.
C3_MalformedIsParseError ==
  /\ \A t \in Threads :
       (Returned(t, "new") /\ ret[t].saw = "regular" /\ ~WellFormedJson(ret[t].read))
         => ret[t].kind = "PyValueError" /\ ret[t].obj = 0
  /\ \A o \in 1..Len(objs) : WellFormedJson(objs[o].read)

C3_Witness ==
  \E t \in Threads :
    /\ Returned(t, "new") /\ ret[t].saw = "regular" /\ ret[t].read = <<>>
    /\ ret[t].kind = "PyValueError"
    /\ objs = <<>>

\* C4: an I/O failure while reading a file that was opened makes IDF::new
\* fail with the error of a failed open (PyIOError), not with PyValueError.
C4_ReadFailureIsIOError ==
  \A t \in Threads :
    (Returned(t, "new") /\ ret[t].saw = "unreadable") => ret[t].kind = "PyIOError"

\* C5: the stored value is the parse of the bytes the file held when
\* IDF::new read it, and stays so: no step changes an object, whatever is
\* called and whatever happens to the file, and get_data's text is that of
\* the value those bytes parse to.
C5_ValueFixedAtConstruction ==
  [][ /\ \A o \in 1..Len(objs) : o <= Len(objs') /\ objs'[o] = objs[o]
      /\ Len(objs') > Len(objs) =>
           /\ Len(objs') = Len(objs) + 1
           /\ from_slice(file.content).ok
           /\ objs'[Len(objs')].read = file.content
           /\ objs'[Len(objs')].data = from_slice(file.content).v
      /\ \A t \in Threads :
           (ret'[t].op = "get_data" /\ ret'[t] # ret[t]) =>
             /\ ret'[t].kind = "Ok"
             /\ ret'[t].text = WriteValue(from_slice(objs[ret'[t].obj].read).v)
    ]_vars

C5_Witness ==
  \E t \in Threads :
    /\ Returned(t, "get_data")
    /\ ret[t].nth = MaxCalls
    /\ file.kind = "regular"
    /\ file.content # objs[ret[t].obj].read
    /\ ~ValueEq(from_slice(file.content).v, objs[ret[t].obj].data)

\* C6: get_data succeeds on every object IDF::new returned: each call
\* returns a string, never an error.
C6_SerializeSucceeds ==
  \A t \in Threads : Returned(t, "get_data") => ret[t].kind = "Ok"

C6_Witness ==
  \E t \in Threads :
    /\ Returned(t, "get_data") /\ ret[t].kind = "Ok"
    /\ objs[ret[t].obj].data.t \notin {"arr", "obj"}

\* C7: idempotence of get_data.  The n-th call on an object returns JSON
\* equivalent to the first call's: both parse, to equal values.
C7_SerializeIdempotent ==
  \A t \in Threads :
    Returned(t, "get_data") =>
      /\ first[ret[t].obj] # <<"none">>
      /\ ParsesBackTo(ret[t].text, first[ret[t].obj])

C7_Witness ==
  \E t \in Threads :
    /\ Returned(t, "get_data") /\ ret[t].nth = MaxCalls /\ MaxCalls > 1
    /\ file.content # objs[ret[t].obj].read

\* C8: get_data calls that overlap on one object need no lock: each returns
\* Ok with the text it would return alone (that of the value the object held
\* when the call began), and the object holds that value afterwards.
C8_ConcurrentReadsSafe ==
  \A t \in Threads :
    Returned(t, "get_data") =>
      /\ ret[t].kind = "Ok"
      /\ ret[t].text = ret[t].alone
      /\ objs[ret[t].obj].data = ret[t].before

C8_Witness ==
  \E t \in Threads, u \in Threads :
    /\ t # u
    /\ Returned(t, "get_data") /\ ret[t].overlapped /\ ret[t].kind = "Ok"
    /\ Returned(u, "get_data") /\ ret[u].obj = ret[t].obj

\* C9: the descriptor IDF::new opened is closed when it returns, on success
\* and on a parse error alike: only a thread inside IDF::new holds one.
C9_NoDescriptorHeld ==
  \A t \in Threads : fd[t] => pc[t] = "opened"

C9_Witness ==
  \E t \in Threads, u \in Threads :
    /\ Returned(t, "new") /\ ret[t].kind = "Ok" /\ ~fd[t]
    /\ Returned(u, "new") /\ ret[u].kind = "PyValueError" /\ ret[u].saw = "regular" /\ ~fd[u]

\* the kind of value a well-formed text has at its root
RootKind(s) ==
  LET c == Peek(s, SkipWs(s, 1))
  IN  CASE ~WellFormedJson(s) -> "none"
        [] c = "{" -> "obj"
        [] c = "[" -> "arr"
        [] c = "\"" -> "str"
        [] c = "n" -> "null"
        [] c \in {"t", "f"} -> "bool"
        [] OTHER -> "num"

\* C10: IDF::new accepts any root type.  A well-formed file with an object,
\* an array, a string, a number, a boolean or null at its root loads, and
\* get_data returns that root value.
C10_AnyRootType ==
  \A t \in Threads :
    /\ (Returned(t, "new") /\ ret[t].saw = "regular"
          /\ RootKind(ret[t].read) \in {"obj", "arr", "str", "num", "bool", "null"})
         => ret[t].kind = "Ok"
    /\ (Returned(t, "get_data") /\ ret[t].kind = "Ok") =>
         /\ from_slice(ret[t].text).ok
         /\ from_slice(ret[t].text).v.t = RootKind(objs[ret[t].obj].read)
         /\ ValueEq(from_slice(ret[t].text).v, objs[ret[t].obj].data)

====
